---------------------------- MODULE Spec2Model ----------------------------
(***************************************************************************)
(* A model of vtrim.py: the fingerprint database, the similarity test,     *)
(* the per-file cut-point scan (findCutPoint), the cut orchestration       *)
(* (doCutVideoFiles / processVideoFile / cutOneVideoFile), the database    *)
(* builder (doAppendHash / appendSampleVideoToHashDB) and the Ctrl+C       *)
(* handler.  The decoder (cv2.VideoCapture), the hasher (pHash) and the    *)
(* extractor (ffmpeg) are the environment: every outcome they can deliver  *)
(* is a nondeterministic choice of the action that calls them.             *)
(***************************************************************************)
EXTENDS Integers, Sequences, FiniteSets, TLC

(***************************************************************************)
(* Bounds of the model.                                                    *)
(***************************************************************************)
MaxSources == 2      \* at most this many entries in cfg.sources
MaxFiles == 2        \* at most this many video files resolved in one run
MaxSec == 5          \* frames exist at whole seconds 1..MaxSec

(***************************************************************************)
(* Program constants.                                                      *)
(***************************************************************************)
max_header_length_ms == 5 * 60 * 1000
SampleStepMs == 1000
MinCutMs == 3000
SimilarityPct == 80
HashBits == 8 * 4

\* math.ceil(8 * 4 * (1 - similarity)) with similarity = 0.8
max_hamming_distance == (HashBits * (100 - SimilarityPct) + 99) \div 100

(***************************************************************************)
(* Fingerprints of the model: H, one at Hamming distance 7 from it (the    *)
(* threshold itself) and one at distance 10 from H and 3 from the other.   *)
(***************************************************************************)
H == 0
HashVals == {H, 127, 1023}

\* Presentation timestamps a decoded frame can carry, in milliseconds.
TsSet == {500} \cup {SampleStepMs * k : k \in 1..MaxSec}
           \cup {MinCutMs + 1, max_header_length_ms + 1}

\* cfg.end values a command line can set (-1 is the unset default).
EndVals == {-1, 0, 2}

(***************************************************************************)
(* Pure functions.                                                         *)
(***************************************************************************)
RECURSIVE hamming(_, _)
hamming(a, b) ==
    IF a = 0 /\ b = 0 THEN 0
    ELSE (IF a % 2 # b % 2 THEN 1 ELSE 0) + hamming(a \div 2, b \div 2)

isKnownNoFastPath(hashes, hash, threshold) ==
    \E h \in hashes : hamming(h, hash) < threshold

isKnownGt(hashes, hash, threshold) ==
    \/ hash \in hashes
    \/ \E h \in hashes : hamming(h, hash) > threshold

\* the body of Configs.isSimilar, the field __max_hamming_distance as an
\* argument
isKnown(hashes, hash, threshold) ==
    \/ hash \in hashes
    \/ \E h \in hashes : hamming(h, hash) < threshold

isSimilarLe(hashes, hash) ==
    \/ hash \in hashes
    \/ \E h \in hashes : hamming(h, hash) <= max_hamming_distance

isSimilarAll(hashes, hash) ==
    \/ hash \in hashes
    \/ \A h \in hashes : hamming(h, hash) < max_hamming_distance

isSimilar(hashes, hash) == isKnown(hashes, hash, max_hamming_distance)

\* str(hash): the decimal digits of a non-negative integer
RECURSIVE Str(_)
Str(n) == IF n < 10 THEN <<n>> ELSE Str(n \div 10) \o <<n % 10>>

\* int(line) of a line of decimal digits
RECURSIVE ParseInt(_)
ParseInt(s) ==
    IF Len(s) = 1 THEN s[1]
    ELSE 10 * ParseInt(SubSeq(s, 1, Len(s) - 1)) + s[Len(s)]

loadHashDBNone(exists, file) == {}

\* if not os.path.isfile(cfg.db): return set(); else {int(line) for line in f}
loadHashDB(exists, file) ==
    IF ~exists THEN {} ELSE {ParseInt(file[i]) : i \in 1..Len(file)}

clearHashDBKeep(file) == file

\* with open(self.db, "w"): pass
clearHashDB(file) == <<>>

\* with open(self.db, "a+") as f: f.write(str(hash)); f.write("\n")
appendHashDBTwice(file, hash) == Append(Append(file, Str(hash)), Str(hash))

appendHashDB(file, hash) == Append(file, Str(hash))

RECURSIVE appendEach(_, _)
appendEach(file, order) ==
    IF Len(order) = 0 THEN file
    ELSE appendEach(appendHashDB(file, Head(order)), Tail(order))

\* the files writeHashDB can leave in place of file: the store is cleared,
\* then one line per member is appended, in the set's iteration order
writeHashDB(file, db) ==
    {appendEach(clearHashDB(file), f) :
        f \in {g \in [1..Cardinality(db) -> db] :
                  \A i, j \in 1..Cardinality(db) : i # j => g[i] # g[j]}}

\* sec = ms / 1000 as handed to the extractor: whole seconds and the
\* thousandths that remain
Sec(m) == [whole |-> m \div 1000, frac |-> m % 1000]

NoCut == [whole |-> -1, frac |-> 0]
NoSample == [ts |-> -1, hash |-> -1]
Running == -1

NoProbe == [t1 |-> -1, t2 |-> -1, hash |-> -1, r1 |-> FALSE, r2 |-> FALSE]

RECURSIVE SeqSum(_)
SeqSum(s) == IF Len(s) = 0 THEN 0 ELSE s[1] + SeqSum(Tail(s))


(***************************************************************************)
(* State.                                                                  *)
(***************************************************************************)
VARIABLES
    op,                   \* cfg.op
    sources,              \* cfg.sources: the number of video files each resolves to
    move_file_after_cut,  \* cfg.move_file_after_cut
    cfg_end,              \* cfg.end
    closed,               \* cfg.__closed, the cancellation flag
    dbExists,             \* os.path.isfile(cfg.db)
    dbFile,               \* the lines of the store file
    dbAtStart,            \* the lines the store file held when the run began
    pc,                   \* the statement the main thread is at
    si, fi,               \* positions of the two nested for loops
    hashes,               \* the in-memory fingerprint set (hashes / db)
    max,                  \* the bound handed to appendSampleVideoToHashDB
    n,                    \* len(db) right after loading in doAppendHash
    success, fail,        \* the tallies of doCutVideoFiles
    result,               \* the value returned to main, Running until then
    reported,             \* the total logged at the end of the run
    videoOpen,            \* an opened cv2.VideoCapture not yet released
    ms, t,                \* findCutPoint's locals
    tag,                  \* which exit of the scan loop was taken
    sample,               \* the last frame handed to pHash
    nsamples,             \* how many frames of the last opened file were hashed
    prevExact,            \* every earlier sample of this scan was a member
    ret,                  \* what processVideoFile returns for the file
    raised,               \* an exception was caught for the file
    cutAt,                \* the offset the extractor was invoked with
    rc,                   \* the extractor's exit status
    moved,                \* shutil.move replaced the original
    analysed,             \* some file's analysis began
    lateStarts,           \* files whose analysis began with the flag set
    abandoned,            \* scans that stopped as Cancelled
    loads, writes,        \* calls of loadHashDB / writeHashDB
    written,              \* the set handed to the last writeHashDB
    seen,                 \* the hashes pHash gave in this build/append run
    probe                 \* arguments and results of a call of isSimilar

cfgVars == <<op, sources, move_file_after_cut, cfg_end>>
storeVars == <<dbExists, dbFile, dbAtStart, writes, written>>
loopVars == <<si, fi>>
tallyVars == <<success, fail, result, reported>>
scanVars == <<ms, t, tag, sample, nsamples, prevExact>>
fileVars == <<ret, raised, cutAt, rc, moved>>
countVars == <<analysed, lateStarts, abandoned>>
memVars == <<hashes, max, n, loads>>

vars == <<cfgVars, storeVars, loopVars, tallyVars, scanVars, fileVars,
          countVars, memVars, closed, pc, videoOpen, probe, seen>>

Operations == {"CutVideoFile", "BuildHashDB", "AppendToHashDB"}

\* the store files a run can start from, written by an earlier run (of the
\* orders a set can be written in, the ascending one)
SeedFiles ==
    {f \in UNION {writeHashDB(<<>>, s) : s \in SUBSET {H, 1023}} :
        \A i \in 1..(Len(f) - 1) : ParseInt(f[i]) < ParseInt(f[i + 1])}

SourceLists ==
    {s \in UNION {[1..k -> 0..MaxFiles] : k \in 1..MaxSources} :
        SeqSum(s) <= MaxFiles}

Init ==
    /\ op \in Operations
    /\ sources \in SourceLists
    /\ move_file_after_cut \in BOOLEAN
    /\ cfg_end \in EndVals
    /\ op # "AppendToHashDB" => cfg_end = -1
    /\ op # "CutVideoFile" => move_file_after_cut = FALSE
    /\ closed = FALSE
    /\ dbExists \in BOOLEAN
    /\ dbFile \in SeedFiles
    /\ ~dbExists => dbFile = <<>>
    /\ dbAtStart = dbFile
    /\ pc = "main"
    /\ si = 1 /\ fi = 1
    /\ hashes = {} /\ max = -1 /\ n = 0
    /\ success = 0 /\ fail = 0 /\ result = Running /\ reported = Running
    /\ videoOpen = FALSE
    /\ ms = 0 /\ t = SampleStepMs /\ tag = "Scanning"
    /\ sample = NoSample /\ nsamples = 0 /\ prevExact = TRUE
    /\ ret = "False" /\ raised = FALSE /\ cutAt = NoCut /\ rc = Running
    /\ moved = FALSE
    /\ analysed = FALSE /\ lateStarts = 0 /\ abandoned = 0
    /\ loads = 0 /\ writes = 0
    /\ seen = {}
    /\ written = {}
    /\ probe = NoProbe

(***************************************************************************)
(* Configs.__handle_ctrl_c: SIGINT can be delivered between any two steps  *)
(* of the main thread.                                                     *)
(***************************************************************************)
handle_ctrl_c ==
    /\ pc \notin {"done", "crashed"}
    /\ closed' = TRUE
    /\ UNCHANGED <<probe, seen, cfgVars, storeVars, loopVars, tallyVars, scanVars, fileVars,
                   countVars, memVars, pc, videoOpen>>

isCancelled(flag) == flag

(***************************************************************************)
(* doCutVideoFiles                                                         *)
(***************************************************************************)
DbFileFoundAlways(exists) == TRUE

\* os.path.isfile(cfg.db)
DbFileFound(exists) == exists

doCutVideoFiles ==
    /\ pc = "main"
    /\ op = "CutVideoFile"
    /\ IF ~DbFileFound(dbExists)
       THEN /\ result' = 1
            /\ pc' = "done"
            /\ UNCHANGED <<hashes, loads, success, fail>>
       ELSE /\ hashes' = loadHashDB(dbExists, dbFile)
            /\ loads' = loads + 1
            /\ success' = 0 /\ fail' = 0
            /\ pc' = "srcPoll"
            /\ UNCHANGED result
    /\ UNCHANGED <<probe, seen, cfgVars, storeVars, loopVars, reported, scanVars, fileVars,
                   countVars, max, n, closed, videoOpen>>

\* for source in cfg.sources: if cfg.isCancelled(): break
SourceLoop ==
    /\ pc = "srcPoll"
    /\ IF si > Len(sources) \/ isCancelled(closed)
       THEN pc' = "report" /\ UNCHANGED fi
       ELSE pc' = "filePoll" /\ fi' = 1
    /\ UNCHANGED <<probe, seen, cfgVars, storeVars, si, tallyVars, scanVars, fileVars,
                   countVars, memVars, closed, videoOpen>>

FilePollCancelledNever == FALSE

\* the poll of the inner loop, before a file is handed to processVideoFile
FilePollCancelled == isCancelled(closed)

\* for src in getAllVideoFiles(cfg, source): if cfg.isCancelled(): break
FileLoop ==
    /\ pc = "filePoll"
    /\ IF fi > sources[si] \/ FilePollCancelled
       THEN pc' = "srcPoll" /\ si' = si + 1
       ELSE pc' = "process" /\ UNCHANGED si
    /\ UNCHANGED <<probe, seen, cfgVars, storeVars, fi, tallyVars, scanVars, fileVars,
                   countVars, memVars, closed, videoOpen>>

\* the locals of processVideoFile and findCutPoint are gone once the call
\* has returned
FileLocalsGone ==
    /\ ms' = 0 /\ t' = SampleStepMs /\ tag' = "Scanning"
    /\ sample' = NoSample /\ nsamples' = 0 /\ prevExact' = TRUE
    /\ ret' = "False" /\ raised' = FALSE /\ cutAt' = NoCut /\ rc' = Running
    /\ moved' = FALSE

TallySuccessNotNone(r, s) == IF r # "None" THEN s + 1 ELSE s

\* if processVideoFile(...): success += 1
TallySuccess(r, s) == IF r = "True" THEN s + 1 ELSE s

\* else: fail += 1
TallyFail(r, f) == IF r = "True" THEN f ELSE f + 1

Tally ==
    /\ pc = "tally"
    /\ success' = TallySuccess(ret, success)
    /\ fail' = TallyFail(ret, fail)
    /\ fi' = fi + 1
    /\ pc' = "filePoll"
    /\ FileLocalsGone
    /\ UNCHANGED <<probe, seen, cfgVars, storeVars, si, result, reported, countVars, memVars,
                   closed, videoOpen>>

Report ==
    /\ pc = "report"
    /\ reported' = success + fail
    /\ result' = 0
    /\ pc' = "done"
    /\ UNCHANGED <<probe, seen, cfgVars, storeVars, loopVars, success, fail, scanVars,
                   fileVars, countVars, memVars, closed, videoOpen>>

(***************************************************************************)
(* processVideoFile, findCutPoint, cutOneVideoFile                         *)
(***************************************************************************)
\* what video.get(CAP_PROP_POS_MSEC) can report after a failed read
EndPos(m) == {0, m, max_header_length_ms + 1}

CaughtOutsideLoop ==
    /\ raised' = TRUE
    /\ ret' = "False"
    /\ pc' = "report"
    /\ videoOpen' = videoOpen

\* except Exception as err: ... return False.  video.release() was not
\* reached: the capture stays open unless the runtime finalises the object.
Caught ==
    /\ raised' = TRUE
    /\ ret' = "False"
    /\ pc' = "tally"
    /\ \E finalised \in BOOLEAN : videoOpen' = (videoOpen /\ ~finalised)

\* if not os.path.isfile(src): return;  video = cv2.VideoCapture(src)
processVideoFile ==
    /\ pc = "process"
    /\ UNCHANGED <<scanVars, raised, cutAt, rc, moved>>
    /\ \E isfile \in BOOLEAN :
         IF ~isfile
         THEN /\ ret' = "None"
              /\ pc' = "tally"
              /\ UNCHANGED <<videoOpen, analysed, lateStarts>>
         ELSE /\ ret' = "False"
              /\ analysed' = TRUE
              /\ lateStarts' = IF closed THEN lateStarts + 1 ELSE lateStarts
              /\ pc' = "scanPoll"
              /\ \E opened \in BOOLEAN : videoOpen' = opened
    /\ UNCHANGED <<probe, seen, cfgVars, storeVars, loopVars, tallyVars, abandoned, memVars,
                   closed>>

\* while video.isOpened(): if cfg.isCancelled(): ms = -1; break
ScanPoll ==
    /\ pc = "scanPoll"
    /\ IF ~videoOpen
       THEN /\ tag' = "StreamEnded"
            /\ pc' = "scanRelease"
            /\ UNCHANGED <<ms, abandoned>>
       ELSE IF isCancelled(closed)
       THEN /\ ms' = -1
            /\ tag' = "Cancelled"
            /\ abandoned' = abandoned + 1
            /\ pc' = "scanRelease"
       ELSE /\ pc' = "scanRead"
            /\ UNCHANGED <<ms, tag, abandoned>>
    /\ UNCHANGED <<probe, seen, cfgVars, storeVars, loopVars, tallyVars, t, sample, nsamples,
                   prevExact, fileVars, analysed, lateStarts, memVars, closed,
                   videoOpen>>

WindowExceededNever(m) == FALSE

\* ms > cfg.max_header_length_ms
WindowExceeded(m) == m > max_header_length_ms

NextSampleAtSame(at) == at

\* t += 1000
NextSampleAt(at) == at + SampleStepMs

\* ok, image = video.read() ... if not cfg.isSimilar(heashes, hash): break
ScanRead ==
    /\ pc = "scanRead"
    /\ \/ /\ Caught                                  \* video.read() raises
          /\ UNCHANGED <<scanVars, cutAt, rc, moved>>
       \/ /\ \E p \in EndPos(ms) : ms' = p           \* not ok
          /\ tag' = "StreamEnded"
          /\ pc' = "scanRelease"
          /\ UNCHANGED <<t, sample, nsamples, prevExact, fileVars, videoOpen>>
       \/ \E ts \in TsSet :
          /\ ts > ms
          /\ ms' = ts
          /\ IF WindowExceeded(ts)
             THEN /\ tag' = "WindowExceeded"
                  /\ pc' = "scanRelease"
                  /\ UNCHANGED <<t, sample, nsamples, prevExact, fileVars,
                                 videoOpen>>
             ELSE IF ts >= t
             THEN /\ t' = NextSampleAt(t)
                  /\ \/ /\ Caught                    \* pHash(image) raises
                        /\ UNCHANGED <<tag, sample, nsamples, prevExact, cutAt,
                                       rc, moved>>
                     \/ \E hash \in HashVals :
                        /\ sample' = [ts |-> ts, hash |-> hash]
                        /\ nsamples' = nsamples + 1
                        /\ prevExact' = (prevExact /\
                                            (nsamples = 0 \/ sample.hash \in hashes))
                        /\ IF ~isSimilar(hashes, hash)
                           THEN tag' = "FrameNovel" /\ pc' = "scanRelease"
                           ELSE pc' = "scanPoll" /\ UNCHANGED tag
                        /\ UNCHANGED <<fileVars, videoOpen>>
             ELSE /\ pc' = "scanPoll"
                  /\ UNCHANGED <<t, tag, sample, nsamples, prevExact, fileVars,
                                 videoOpen>>
    /\ UNCHANGED <<probe, seen, cfgVars, storeVars, loopVars, tallyVars, countVars, memVars,
                   closed>>

ActionableGe(e) == e >= MinCutMs

\* if end > 3000
Actionable(e) == e > MinCutMs

\* video.release(); return ms (the other locals of findCutPoint are gone);
\* then the test of processVideoFile
ScanRelease ==
    /\ pc = "scanRelease"
    /\ videoOpen' = FALSE
    /\ t' = SampleStepMs /\ sample' = NoSample /\ nsamples' = 0
    /\ prevExact' = TRUE
    /\ IF Actionable(ms)
       THEN pc' = "cut" /\ UNCHANGED ret
       ELSE pc' = "tally" /\ ret' = "False"
    /\ UNCHANGED <<probe, seen, cfgVars, storeVars, loopVars, tallyVars, ms, tag, raised,
                   cutAt, rc, moved, countVars, memVars, closed>>

MoveWantedAlways(code, flag) == flag

\* if r.returncode != 0: return;  if cfg.move_file_after_cut: shutil.move
MoveWanted(code, flag) == code = 0 /\ flag

\* what cutOneVideoFile returns after the extractor ended with status code
CutReturn(code) == IF code # 0 THEN "None" ELSE "True"

cutOneVideoFile ==
    /\ pc = "cut"
    /\ cutAt' = Sec(ms)
    /\ \/ /\ Caught                                  \* subprocess.run raises
          /\ UNCHANGED <<rc, moved>>
       \/ \E code \in {0, 1} :
          /\ rc' = code
          /\ IF MoveWanted(code, move_file_after_cut)
             THEN \/ /\ Caught                       \* shutil.move raises
                     /\ UNCHANGED moved
                  \/ /\ moved' = TRUE
                     /\ ret' = CutReturn(code)
                     /\ pc' = "tally"
                     /\ UNCHANGED <<raised, videoOpen>>
             ELSE /\ ret' = CutReturn(code)
                  /\ pc' = "tally"
                  /\ UNCHANGED <<moved, raised, videoOpen>>
    /\ UNCHANGED <<probe, seen, cfgVars, storeVars, loopVars, tallyVars, scanVars, countVars,
                   memVars, closed>>

(***************************************************************************)
(* doAppendHash, appendSampleVideoToHashDB                                 *)
(***************************************************************************)
InvalidAppendDurationLt0(o, e) == o = "AppendToHashDB" /\ e < 0

\* if cfg.op == Operations.AppendToHashDB and cfg.end < 1
InvalidAppendDuration(o, e) == o = "AppendToHashDB" /\ e < 1

doAppendHash ==
    /\ pc = "main"
    /\ op \in {"BuildHashDB", "AppendToHashDB"}
    /\ IF InvalidAppendDuration(op, cfg_end)
       THEN /\ result' = 1
            /\ pc' = "done"
            /\ UNCHANGED memVars
       ELSE /\ max' = IF op # "AppendToHashDB" THEN -1 ELSE cfg_end * 1000
            /\ hashes' = loadHashDB(dbExists, dbFile)
            /\ loads' = loads + 1
            /\ n' = Cardinality(loadHashDB(dbExists, dbFile))
            /\ pc' = "appNext"
            /\ UNCHANGED result
    /\ UNCHANGED <<probe, seen, cfgVars, storeVars, loopVars, success, fail, reported,
                   scanVars, fileVars, countVars, closed, videoOpen>>

SourcesLeftUnlessCancelled(s, srcs, cancelled) == s <= Len(srcs) /\ ~cancelled

\* for source in cfg.sources: the flag is not consulted (compare line 129)
SourcesLeft(s, srcs, cancelled) == s <= Len(srcs)

\* the two for loops of doAppendHash and the head of
\* appendSampleVideoToHashDB: no poll of the cancellation flag
AppendNext ==
    /\ pc = "appNext"
    /\ IF ~SourcesLeft(si, sources, closed)
       THEN /\ pc' = "appWrite"
            /\ UNCHANGED <<si, fi, ms, sample, nsamples, analysed, lateStarts, videoOpen>>
       ELSE IF fi > sources[si]
       THEN /\ si' = si + 1 /\ fi' = 1
            /\ UNCHANGED <<pc, ms, sample, nsamples, analysed, lateStarts, videoOpen>>
       ELSE \E isfile \in BOOLEAN :
            IF ~isfile
            THEN /\ fi' = fi + 1
                 /\ UNCHANGED <<pc, si, ms, sample, nsamples, analysed, lateStarts,
                                videoOpen>>
            ELSE /\ UNCHANGED <<ms, sample>>
                 /\ nsamples' = 0               \* count, n = 0, 0
                 /\ analysed' = TRUE
                 /\ lateStarts' = IF closed THEN lateStarts + 1 ELSE lateStarts
                 /\ pc' = "appRead"
                 /\ \E opened \in BOOLEAN : videoOpen' = opened
                 /\ UNCHANGED <<si, fi>>
    /\ UNCHANGED <<probe, seen, cfgVars, storeVars, tallyVars, t, tag, prevExact,
                   fileVars, abandoned, memVars, closed>>

PastBoundLate(m, bound) == bound > 0 /\ m > bound * 1000

\* (max > 0 and ms > max)
PastBound(m, bound) == bound > 0 /\ m > bound

\* one turn of the while loop of appendSampleVideoToHashDB; an exception
\* here is caught nowhere and ends the process
AppendRead ==
    /\ pc = "appRead"
    /\ IF ~videoOpen
       THEN /\ pc' = "appRelease"
            /\ UNCHANGED <<ms, sample, nsamples, seen, hashes, result>>
       ELSE \/ /\ pc' = "crashed"                    \* video.read() raises
               /\ result' = 1
               /\ UNCHANGED <<ms, sample, nsamples, seen, hashes>>
            \/ /\ \E p \in EndPos(ms) : ms' = p      \* not ok
               /\ pc' = "appRelease"
               /\ UNCHANGED <<sample, nsamples, seen, hashes, result>>
            \/ \E ts \in TsSet :
               /\ ts > ms
               /\ ms' = ts
               /\ IF PastBound(ts, max)
                  THEN /\ pc' = "appRelease"
                       /\ UNCHANGED <<sample, nsamples, seen, hashes, result>>
                  ELSE \/ /\ pc' = "crashed"         \* pHash(image) raises
                          /\ result' = 1
                          /\ UNCHANGED <<sample, nsamples, seen, hashes>>
                       \/ \E hash \in HashVals :
                          /\ sample' = [ts |-> ts, hash |-> hash]
                          /\ nsamples' = nsamples + 1
                          /\ seen' = seen \cup {hash}
                          /\ hashes' = hashes \cup {hash}
                          /\ UNCHANGED <<pc, result>>
    /\ UNCHANGED <<probe, cfgVars, storeVars, loopVars, success, fail, reported, t, tag,
                   prevExact, fileVars, countVars, max, n, loads,
                   closed, videoOpen>>

\* video.release()
AppendRelease ==
    /\ pc = "appRelease"
    /\ videoOpen' = FALSE
    /\ ms' = 0 /\ sample' = NoSample
    /\ fi' = fi + 1
    /\ pc' = "appNext"
    /\ UNCHANGED <<probe, seen, cfgVars, storeVars, si, tallyVars, t, tag, nsamples,
                   prevExact, fileVars, countVars, memVars, closed>>

\* cfg.info("total new hashes:", len(db) - n); writeHashDB(cfg, db); return 0
AppendWrite ==
    /\ pc = "appWrite"
    /\ reported' = Cardinality(hashes) - n
    /\ dbFile' \in writeHashDB(dbFile, hashes)
    /\ written' = hashes
    /\ dbExists' = TRUE
    /\ writes' = writes + 1
    /\ result' = 0
    /\ pc' = "done"
    /\ UNCHANGED <<probe, seen, cfgVars, dbAtStart, loopVars, success, fail, scanVars,
                   fileVars, countVars, memVars, closed, videoOpen>>

Next ==
    \/ handle_ctrl_c
    \/ doCutVideoFiles
    \/ SourceLoop
    \/ FileLoop
    \/ processVideoFile
    \/ ScanPoll
    \/ ScanRead
    \/ ScanRelease
    \/ cutOneVideoFile
    \/ Tally
    \/ Report
    \/ doAppendHash
    \/ AppendNext
    \/ AppendRead
    \/ AppendRelease
    \/ AppendWrite

Spec == Init /\ [][Next]_vars

\* a run started with -c
InitCut == Init /\ op = "CutVideoFile"

NextCut ==
    \/ handle_ctrl_c
    \/ doCutVideoFiles
    \/ SourceLoop
    \/ FileLoop
    \/ processVideoFile
    \/ ScanPoll
    \/ ScanRead
    \/ ScanRelease
    \/ cutOneVideoFile
    \/ Tally
    \/ Report

SpecCut == InitCut /\ [][NextCut]_vars

\* a cut run over one file
InitScan == InitCut /\ sources = <<1>>

\* the steps of the main thread: the program is single-threaded and
\* synchronous, so it keeps stepping until main returns
MainSteps ==
    \/ doCutVideoFiles
    \/ SourceLoop
    \/ FileLoop
    \/ processVideoFile
    \/ ScanPoll
    \/ ScanRead
    \/ ScanRelease
    \/ cutOneVideoFile
    \/ Tally
    \/ Report

SpecScanFair == InitScan /\ [][NextCut]_vars /\ WF_vars(MainSteps)

\* a run started with -b or -a
InitAppend == Init /\ op # "CutVideoFile"

NextAppend ==
    \/ handle_ctrl_c
    \/ doAppendHash
    \/ AppendNext
    \/ AppendRead
    \/ AppendRelease
    \/ AppendWrite

SpecAppend == InitAppend /\ [][NextAppend]_vars

(***************************************************************************)
(* The store and the similarity test on their own: the inputs are drawn    *)
(* by the initial state and an action applies the function.                *)
(***************************************************************************)
\* no run in progress: what the run's variables hold outside one
Quiet ==
    /\ op = "BuildHashDB" /\ sources = <<0>>
    /\ move_file_after_cut = FALSE /\ cfg_end = -1
    /\ closed = FALSE
    /\ si = 1 /\ fi = 1
    /\ max = -1 /\ n = 0
    /\ success = 0 /\ fail = 0 /\ result = Running /\ reported = Running
    /\ videoOpen = FALSE
    /\ ms = 0 /\ t = SampleStepMs /\ tag = "Scanning"
    /\ sample = NoSample /\ nsamples = 0 /\ prevExact = TRUE
    /\ ret = "False" /\ raised = FALSE /\ cutAt = NoCut /\ rc = Running
    /\ moved = FALSE
    /\ analysed = FALSE /\ lateStarts = 0 /\ abandoned = 0
    /\ loads = 0 /\ writes = 0
    /\ seen = {}

\* any set to persist, over any store left by an earlier run
InitStore ==
    /\ Quiet
    /\ hashes \in SUBSET HashVals
    /\ dbExists \in BOOLEAN
    /\ dbFile \in SeedFiles
    /\ ~dbExists => dbFile = <<>>
    /\ dbAtStart = dbFile
    /\ written = {}
    /\ probe = NoProbe
    /\ pc = "store"

\* writeHashDB(cfg, db)
StoreWrite ==
    /\ pc = "store"
    /\ dbFile' \in writeHashDB(dbFile, hashes)
    /\ dbExists' = TRUE
    /\ written' = hashes
    /\ writes' = writes + 1
    /\ hashes' = {}
    /\ pc' = "stored"
    /\ UNCHANGED <<probe, seen, cfgVars, dbAtStart, loopVars, tallyVars, scanVars,
                   fileVars, countVars, max, n, loads, closed, videoOpen>>

\* loadHashDB(cfg), of a store just written or of one found at start
StoreLoad ==
    /\ pc \in {"store", "stored"}
    /\ hashes' = loadHashDB(dbExists, dbFile)
    /\ loads' = loads + 1
    /\ pc' = "loaded"
    /\ UNCHANGED <<probe, seen, cfgVars, storeVars, loopVars, tallyVars, scanVars,
                   fileVars, countVars, max, n, closed, videoOpen>>

NextStore ==
    \/ StoreWrite
    \/ StoreLoad

SpecStore == InitStore /\ [][NextStore]_vars

\* the values __max_hamming_distance can take for a similarity in [0, 1],
\* and one past them
Thresholds == 0..(HashBits + 1)

\* any set, candidate and pair of thresholds
InitMatch ==
    /\ Quiet
    /\ hashes \in SUBSET HashVals
    /\ dbExists = FALSE /\ dbFile = <<>> /\ dbAtStart = <<>>
    /\ written = {}
    /\ probe \in [t1 : Thresholds, t2 : Thresholds, hash : HashVals,
                   r1 : {FALSE}, r2 : {FALSE}]
    /\ pc = "match"

\* cfg.isSimilar(hashes, hash), once under each threshold
Match ==
    /\ pc = "match"
    /\ probe' = [probe EXCEPT !.r1 = isKnown(hashes, probe.hash, probe.t1),
                              !.r2 = isKnown(hashes, probe.hash, probe.t2)]
    /\ pc' = "matched"
    /\ UNCHANGED <<seen, cfgVars, storeVars, loopVars, tallyVars, scanVars,
                   fileVars, countVars, memVars, closed, videoOpen>>

NextMatch == Match

SpecMatch == InitMatch /\ [][NextMatch]_vars

(***************************************************************************)
(* Properties.                                                             *)
(***************************************************************************)
\* files of the resolved list that processVideoFile has returned for, when
\* the inner loop is about to take its next file
Handled == SeqSum(SubSeq(sources, 1, si - 1)) + (fi - 1)

\* the scan of the current file has returned a timestamp
Returned == tag # "Scanning"

\* C1 as stated: a file whose scan stopped as Cancelled is added to neither
\* the success nor the failure count, and no further file is started.
C1_CancelledFileUncounted ==
    /\ abandoned >= 1 => pc \notin {"process", "scanPoll", "scanRead", "cut"}
    /\ pc = "filePoll" => success + fail = Handled - abandoned

\* C1 amended: when the per-frame poll of findCutPoint sees the flag the scan
\* stops as Cancelled with timestamp -1; that file is not counted as a
\* success but is added to the failure (skip) count; no further file is
\* started.
C1_CancelledFileCountedAsSkip ==
    /\ [](abandoned >= 1 =>
            /\ pc \in {"scanRelease", "tally", "filePoll", "srcPoll", "report",
                       "done"}
            /\ pc \in {"scanRelease", "tally"} => tag = "Cancelled")
    /\ [](tag = "Cancelled" => ms = -1 /\ ret = "False" /\ cutAt = NoCut)
    /\ [](pc = "filePoll" => success + fail = Handled)
    /\ [][/\ (pc = "scanPoll" /\ videoOpen /\ closed /\ pc' # pc) =>
               (pc' = "scanRelease" /\ tag' = "Cancelled" /\ ms' = -1)
          /\ (pc = "tally" /\ tag = "Cancelled" /\ pc' # pc) =>
               (success' = success /\ fail' = fail + 1)]_vars

C1_Witness ==
    /\ pc = "done"
    /\ abandoned = 1
    /\ success = 0 /\ fail = 1 /\ reported = 1
    /\ SeqSum(sources) = 2

\* C2: whenever no call of findCutPoint or appendSampleVideoToHashDB is in
\* progress, no frame source is open.
C2_FrameSourceReleased ==
    pc \notin {"scanPoll", "scanRead", "scanRelease", "appRead", "appRelease"}
        => ~videoOpen

\* C3: once a scan has returned, the extractor has been invoked for the file
\* exactly when the returned timestamp is above 3000 ms, whatever the tag;
\* never after Cancelled (timestamp -1); at or below 3000 ms the file is
\* neither cut nor moved.
C3_CutIffAbove3000 ==
    pc = "tally" =>
        /\ Returned => (cutAt # NoCut <=> ms > 3000)
        /\ ~Returned => cutAt = NoCut
        /\ tag = "Cancelled" => (ms = -1 /\ cutAt = NoCut)
        /\ (Returned /\ ms <= 3000) => (rc = Running /\ ~moved /\ ret = "False")

C3_Witness ==
    /\ pc = "tally"
    /\ tag = "StreamEnded"
    /\ ms > 3000
    /\ cutAt = Sec(ms)

\* C4 as stated: whenever the scan stops as FrameNovel the extractor is
\* invoked at timestamp/1000 seconds.
C4_NovelAlwaysCut ==
    (pc = "tally" /\ tag = "FrameNovel") => cutAt = Sec(ms)

\* C4 amended: a sampled frame that is no member and is at distance 7 or more
\* from every member stops the scan as FrameNovel at that sample's timestamp
\* (every earlier sample was known); the extractor is then invoked at
\* timestamp/1000 seconds when the timestamp is above 3000 ms, and not at all
\* otherwise.  Scenario B: set {H}, four samples equal to H, the fifth at
\* distance 10 and 5000 ms: FrameNovel at 5000 ms, cut at 5 seconds.
C4_NovelSampleStopsScan ==
    LET known(h) == h \in hashes \/ \E m \in hashes : hamming(m, h) < 7
    IN  /\ max_hamming_distance = 7
        /\ (pc \in {"scanPoll", "scanRead"} /\ nsamples > 0) => known(sample.hash)
        /\ (pc = "scanRelease" /\ nsamples > 0 /\ ~known(sample.hash)) =>
               (tag = "FrameNovel" /\ ms = sample.ts)
        /\ (pc = "scanRelease" /\ tag = "FrameNovel") =>
               (nsamples > 0 /\ ~known(sample.hash))
        /\ (pc = "tally" /\ tag = "FrameNovel") =>
               IF ms > 3000 THEN cutAt = Sec(ms) ELSE cutAt = NoCut
        /\ (/\ pc = "scanRelease" /\ hashes = {H} /\ nsamples = 5 /\ prevExact
            /\ hamming(H, sample.hash) = 10 /\ sample.ts = 5000) =>
               (tag = "FrameNovel" /\ ms = 5000)
        /\ (pc = "tally" /\ tag = "FrameNovel" /\ ms = 5000) =>
               cutAt = [whole |-> 5, frac |-> 0]

C4_Witness ==
    /\ pc = "tally"
    /\ hashes = {H}
    /\ tag = "FrameNovel"
    /\ ms = 5000
    /\ cutAt = [whole |-> 5, frac |-> 0]
    /\ rc = 0

\* Scenario B itself is reached by the scan
C4_ScenarioB ==
    /\ pc = "scanRelease" /\ hashes = {H} /\ nsamples = 5 /\ prevExact
    /\ sample = [ts |-> 5000, hash |-> 1023]

\* C5 as stated: with an empty database every scan reports FrameNovel at
\* 1000 ms.
C5_EmptyAlwaysNovelAt1000 ==
    (pc = "scanRelease" /\ hashes = {}) => (tag = "FrameNovel" /\ ms = 1000)

\* C5 amended: with an empty database the first sampled frame (the first
\* frame at or after 1000 ms) is never known: a scan that samples a frame
\* stops there as FrameNovel with that frame's timestamp, which is 1000 ms
\* exactly when that frame is at 1000 ms; a scan cancelled, out of frames or
\* past the window before any sample does not report FrameNovel.
C5_EmptyFirstSampleNovel ==
    (hashes = {} /\ loads > 0) =>
        /\ pc \in {"scanPoll", "scanRead"} => (nsamples = 0 /\ ms < 1000)
        /\ (pc = "scanRelease" /\ nsamples > 0) =>
               /\ nsamples = 1
               /\ tag = "FrameNovel"
               /\ ms = sample.ts
               /\ ms >= 1000
        /\ (pc = "scanRelease" /\ nsamples = 0) => tag # "FrameNovel"

C5_Witness ==
    /\ pc = "scanRelease"
    /\ hashes = {} /\ loads > 0
    /\ tag = "FrameNovel"
    /\ ms = 1000

\* C6 as stated: once the flag is set no new file is started, and at most
\* one file is abandoned.
C6_NoStartAfterFlag ==
    lateStarts = 0 /\ abandoned <= 1

\* C6 amended: the flag, once set, stays set; after it is set at most one
\* more file is started (one that had passed the poll before the flag was
\* set) and that file reads no frame and is not cut; at most one scan in the
\* run is abandoned, and the abandoned file is not counted as a success.
C6_FlagSticksOneLateStart ==
    /\ [](lateStarts <= 1 /\ abandoned <= 1)
    /\ [](lateStarts >= 1 => (closed /\ pc \notin {"scanRead", "cut"}))
    /\ []((closed /\ pc = "process") => lateStarts = 0)
    /\ [][/\ closed => closed'
          /\ (closed /\ pc \in {"srcPoll", "filePoll"} /\ pc' # pc) =>
                 pc' \in {"srcPoll", "report"}
          /\ (pc = "tally" /\ tag = "Cancelled") => success' = success]_vars

C6_Witness ==
    /\ pc = "done"
    /\ lateStarts = 1
    /\ abandoned = 1
    /\ success = 0

\* C7: with no store file, doCutVideoFiles returns non-zero and has loaded
\* no set, analysed, cut or counted no file.
C7_MissingStoreFailsFast ==
    (op = "CutVideoFile" /\ ~dbExists) =>
        /\ pc \in {"main", "done"}
        /\ loads = 0 /\ hashes = {}
        /\ ~analysed /\ cutAt = NoCut
        /\ success = 0 /\ fail = 0 /\ reported = Running
        /\ pc = "done" => result = 1

C7_Witness ==
    /\ op = "CutVideoFile" /\ ~dbExists
    /\ pc = "done"
    /\ result = 1
    /\ SeqSum(sources) > 0

\* C8: an error raised while scanning or extracting a file is caught, the
\* file is counted as a failure and the loop goes on to the next file; a run
\* that found its store ends with result 0 and a total equal to success plus
\* failure, which without cancellation is the number of resolved files.
C8_ErrorIsolatedPerFile ==
    /\ [](raised => (pc = "tally" /\ ret = "False"))
    /\ []((pc = "done" /\ dbExists) =>
            /\ result = 0
            /\ reported = success + fail
            /\ success + fail <= SeqSum(sources)
            /\ ~closed => success + fail = SeqSum(sources))
    /\ [][(pc = "tally" /\ raised /\ pc' # pc) =>
            (fail' = fail + 1 /\ success' = success /\ pc' = "filePoll")]_vars

C8_Witness ==
    /\ pc = "tally"
    /\ raised /\ ret = "False"
    /\ ~closed
    /\ fi < sources[si]

\* C9: after a non-zero extractor status the file is counted as failed and
\* the original is not replaced, even with move-after-cut; the original is
\* replaced only after status 0 with move-after-cut enabled.
C9_FailedCutNotMoved ==
    /\ (pc = "tally" /\ rc \notin {0, Running}) => (ret = "None" /\ ~moved)
    /\ moved => (rc = 0 /\ move_file_after_cut /\ cutAt # NoCut)
    /\ (pc = "tally" /\ rc = 0 /\ ~raised) =>
           (ret = "True" /\ moved = move_file_after_cut)
    /\ (pc = "tally" /\ ret = "True") => rc = 0

C9_Witness ==
    /\ pc = "tally"
    /\ rc = 1
    /\ move_file_after_cut
    /\ ~moved
    /\ ret = "None"

\* C10: append mode with a duration bound below 1 (the unset -1 included)
\* returns non-zero before the store is loaded or any file decoded, and the
\* store file is left as it was.
C10_BadDurationFailsFast ==
    (op = "AppendToHashDB" /\ cfg_end < 1) =>
        /\ pc \in {"main", "done"}
        /\ loads = 0 /\ hashes = {}
        /\ ~analysed
        /\ writes = 0 /\ dbFile = dbAtStart
        /\ pc = "done" => result = 1

C10_Witness ==
    /\ op = "AppendToHashDB" /\ cfg_end = -1
    /\ pc = "done"
    /\ result = 1
    /\ dbExists /\ Len(dbFile) > 0
    /\ SeqSum(sources) > 0

\* C11: writeHashDB(S) followed by loadHashDB gives back exactly S, whatever
\* the store file held before; loading a missing store gives the empty set.
C11_WriteLoadRoundTrip ==
    /\ (pc = "loaded" /\ writes = 1) => hashes = written
    /\ (pc = "stored") => Len(dbFile) = Cardinality(written)
    /\ (pc = "loaded" /\ writes = 0 /\ ~dbExists) => hashes = {}

C11_Witness ==
    /\ pc = "loaded"
    /\ writes = 1
    /\ dbAtStart = <<Str(1023)>>
    /\ written = {H, 127}
    /\ hashes = {H, 127}

\* C12: in append mode bounded at T seconds every fingerprint added to the
\* set is that of a frame whose timestamp is at most T*1000 ms; a frame past
\* the bound ends the file without being hashed.
C12_AppendWithinBound ==
    /\ []((op = "AppendToHashDB" /\ sample # NoSample) =>
            (cfg_end >= 1 /\ sample.ts <= cfg_end * 1000))
    /\ []((op = "AppendToHashDB" /\ pc = "appRead") => ms <= cfg_end * 1000)
    /\ [][(op = "AppendToHashDB" /\ pc = "appRead" /\ hashes' # hashes) =>
            /\ hashes' = hashes \cup {sample'.hash}
            /\ sample'.ts = ms'
            /\ ms' <= cfg_end * 1000]_vars

C12_Witness ==
    /\ op = "AppendToHashDB" /\ cfg_end = 2
    /\ pc = "appRelease"
    /\ ms = 3000
    /\ sample.ts = 2000
    /\ sample.hash \in hashes

\* C13 as stated: a build run whose frames all hash to one fingerprint
\* leaves a store of exactly one entry.
C13_IdenticalFramesOneEntry ==
    (op = "BuildHashDB" /\ pc = "done" /\ Cardinality(seen) = 1) =>
        Len(dbFile) = 1

\* C13: a build run whose frames all hash to one fingerprint h leaves the
\* store holding what it held before together with h, each once, however
\* many frames were hashed; that is exactly one entry when the store was
\* missing, empty or held only h.
C13_IdenticalFramesAddOne ==
    LET prior == loadHashDB(TRUE, dbAtStart) IN
    /\ (op = "BuildHashDB" /\ loads = 1 /\ pc # "done") =>
           hashes = prior \cup seen
    /\ (op = "BuildHashDB" /\ pc = "done" /\ Cardinality(seen) = 1) =>
           /\ loadHashDB(dbExists, dbFile) = prior \cup seen
           /\ Len(dbFile) = Cardinality(prior \cup seen)
           /\ prior \subseteq seen => Len(dbFile) = 1

C13_Witness ==
    /\ op = "BuildHashDB" /\ pc = "done"
    /\ SeqSum(sources) = 1
    /\ nsamples = 3
    /\ seen = {H}
    /\ dbAtStart = <<>>
    /\ dbFile = <<Str(H)>>

\* the fingerprints a store file holds, one per line
Entries(file) == {ParseInt(file[i]) : i \in 1..Len(file)}

\* C14: in a build or append run the in-memory set never loses a
\* fingerprint from one step to the next, a run that has ended leaves the
\* store holding at least what it held before, and the run that passes
\* validation and finishes persists the in-memory set, which contains the
\* set persisted before.
C14_SetOnlyGrows ==
    /\ [][hashes \subseteq hashes']_vars
    /\ [](pc \in {"done", "crashed"} =>
            Entries(dbAtStart) \subseteq Entries(dbFile))
    /\ []((loads = 1 /\ pc # "done") => Entries(dbAtStart) \subseteq hashes)
    /\ []((pc = "done" /\ ~InvalidAppendDuration(op, cfg_end)) =>
            /\ writes = 1
            /\ Entries(dbFile) = hashes
            /\ hashes = Entries(dbAtStart) \cup seen)

C14_Witness ==
    /\ op = "BuildHashDB" /\ pc = "done"
    /\ Entries(dbAtStart) = {H, 1023}
    /\ seen = {127}
    /\ Entries(dbFile) = {H, 127, 1023}

\* C15: in a cut run the set is loaded at most once, from then on the
\* in-memory set is exactly what the store held at the start, and the store
\* file is never written: both are the same before and after every scan,
\* extraction, failure and tally.
C15_CutLeavesSetAlone ==
    op = "CutVideoFile" =>
        /\ loads <= 1 /\ writes = 0
        /\ dbFile = dbAtStart
        /\ loads = 1 => (dbExists /\ hashes = Entries(dbAtStart))
        /\ loads = 0 => (hashes = {} /\ pc \in {"main", "done"})

C15_Witness ==
    /\ op = "CutVideoFile" /\ pc = "done"
    /\ success = 1 /\ fail = 1
    /\ hashes = {H, 1023}
    /\ dbFile = dbAtStart

\* C16: a candidate that is a member of the set is reported known under
\* every threshold, 0 included.
C16_ExactMemberKnown ==
    (pc = "matched" /\ probe.hash \in hashes) => (probe.r1 /\ probe.r2)

C16_Witness ==
    /\ pc = "matched"
    /\ hashes = {H, 1023}
    /\ probe.hash = 1023
    /\ probe.t1 = 0
    /\ probe.r1

\* C17: for one set and one candidate, known under a threshold implies known
\* under every threshold at least as large.
C17_MonotoneInThreshold ==
    (pc = "matched" /\ probe.t1 <= probe.t2 /\ probe.r1) => probe.r2

C17_Witness ==
    /\ pc = "matched"
    /\ hashes = {127}
    /\ probe.hash = H
    /\ probe.t1 = 8 /\ probe.r1
    /\ probe.t2 = 9 /\ probe.r2

\* the four ways the scan loop of findCutPoint is left by break or by its
\* loop condition
TerminalTags == {"FrameNovel", "WindowExceeded", "Cancelled", "StreamEnded"}

\* C18 as stated: every scan that starts reaches one of the four terminal
\* states.
C18_ScanReachesTerminal ==
    (pc = "scanPoll") ~> (pc = "scanRelease" /\ tag \in TerminalTags)

\* C18: every scan that starts ends, in one of the four terminal states or
\* by an exception of the frame source or the hasher that leaves
\* findCutPoint; no frame past the window is hashed, and once the poll has
\* seen the flag no frame is read or hashed.
C18_ScanEnds ==
    /\ (pc = "scanPoll") ~>
           ((pc = "scanRelease" /\ tag \in TerminalTags) \/ (pc = "tally" /\ raised))
    /\ [](nsamples > 0 => sample.ts <= max_header_length_ms)
    /\ [](tag = "Cancelled" => (ms = -1 /\ pc \notin {"scanPoll", "scanRead"}))
    /\ [][(pc = "scanPoll" /\ videoOpen /\ closed /\ pc' # pc) =>
            /\ tag' = "Cancelled" /\ pc' = "scanRelease"
            /\ UNCHANGED <<sample, nsamples, t>>]_vars

C18_Witness ==
    /\ pc = "scanRelease"
    /\ tag = "WindowExceeded"
    /\ ms = max_header_length_ms + 1
    /\ nsamples = 5 /\ sample.ts = 5000

\* C19: while a file is scanned the k-th hashed frame has a timestamp of at
\* least 1000*k ms, so at most floor(ms/1000) frames are hashed up to ms;
\* each hashed frame is later than the one hashed before it; and a scan that
\* stops as FrameNovel stops between 1000 ms and the window, at the frame
\* just hashed.
C19_SampleSpacing ==
    /\ [](nsamples > 0 =>
            /\ sample.ts >= SampleStepMs * nsamples
            /\ nsamples <= sample.ts \div SampleStepMs
            /\ tag \notin {"Cancelled", "StreamEnded"} =>
                   (sample.ts <= ms /\ nsamples <= ms \div SampleStepMs))
    /\ []((pc \in {"scanPoll", "scanRead"} /\ op = "CutVideoFile") =>
            t = SampleStepMs * (nsamples + 1))
    /\ []((pc = "scanRelease" /\ tag = "FrameNovel") =>
            /\ ms >= SampleStepMs /\ ms <= max_header_length_ms
            /\ nsamples >= 1 /\ ms = sample.ts)
    /\ [][(pc = "scanRead" /\ nsamples > 0 /\ nsamples' = nsamples + 1) =>
            (sample'.ts > sample.ts /\ sample'.ts >= t /\ sample'.ts = ms')]_vars

C19_Witness ==
    /\ pc = "scanRelease"
    /\ tag = "FrameNovel"
    /\ nsamples = 2
    /\ sample.ts = MinCutMs + 1
    /\ ms = MinCutMs + 1

\* C20: a build or append run takes the same steps whether or not the flag
\* is set: with the flag set the loops still go on to the next file or, the
\* list exhausted, to the write; a file is left only at the end of its stream
\* or past its bound; and the run that ends has visited every source and
\* written the whole accumulated set.
C20_AppendIgnoresCancel ==
    /\ [][(pc = "appNext" /\ closed /\ pc' # pc) =>
            \/ pc' = "appRead" /\ lateStarts' = lateStarts + 1
            \/ pc' = "appWrite" /\ si > Len(sources)]_vars
    /\ [][(pc = "appRead" /\ closed /\ pc' = "appRelease") =>
            \/ ~videoOpen
            \/ ms' \in EndPos(ms)
            \/ PastBound(ms', max)]_vars
    /\ []((pc = "done" /\ ~InvalidAppendDuration(op, cfg_end)) =>
            /\ si > Len(sources)
            /\ writes = 1 /\ result = 0
            /\ written = hashes /\ Entries(dbFile) = hashes
            /\ hashes = Entries(dbAtStart) \cup seen)

C20_Witness ==
    /\ pc = "done" /\ closed
    /\ SeqSum(sources) = 2 /\ lateStarts = 2
    /\ writes = 1
    /\ seen = {H, 127}
    /\ Entries(dbFile) = {H, 127, 1023}

=============================================================================
